---- MODULE Spec2Model ----
(***************************************************************************)
(* A model of esntorch.core.esn.EchoStateNetwork: the training dispatcher  *)
(* (fit), the closed-form trainer (_fit_direct), the gradient-descent      *)
(* trainer (_fit_GD), the directional pooler (_apply_pooling_strategy),    *)
(* the prediction aggregator (_compute_predictions) and predict.           *)
(*                                                                         *)
(* Tensors are sequences: a 1-D tensor is a sequence of numbers, a 2-D     *)
(* tensor a sequence of rows, a 3-D tensor a sequence (one per sentence of *)
(* the batch) of sequences (one per time step) of rows.  Python's None is  *)
(* the record None; a local name that was never assigned is Unbound.       *)
(***************************************************************************)
EXTENDS Integers, Sequences, FiniteSets, TLC

\* ------------------------------------------------------------- bounds
MaxSeqs == 2
MaxLen == 2
MaxBatches == 2
MaxEpochs == 2
MaxIterSteps == 2
NumClasses == 2
MaxScore == 2

\* ------------------------------------------------------------- values
None == [type |-> "NoneType"]
Unbound == [type |-> "unbound local"]
\* A value that may be None instead is held as Some(x), and read as its .data.
Some(x) == [type |-> "object", data |-> x]

RECURSIVE Sum(_)
Sum(s) == IF s = <<>> THEN 0 ELSE s[1] + Sum(Tail(s))

RECURSIVE Cat(_)
\* torch.cat(l, dim=0) of a non-empty list of tensors: the rows of each, in order.
Cat(l) == IF l = <<>> THEN <<>> ELSE l[1] \o Cat(Tail(l))

Max(S) == CHOOSE m \in S : \A x \in S : x <= m

\* The readout classes of esntorch.core.learning_algo that fit() names, one
\* iterative readout of that module, and a readout of any other class.
ClosedFormAlgos ==
    {"RidgeRegression", "RidgeRegression_skl", "LogisticRegression_skl", "LinearSVC"}
IterativeAlgos == {"LogisticRegression"}
OtherAlgos == {"Unrecognized"}
Algos == ClosedFormAlgos \cup IterativeAlgos \cup OtherAlgos

Criteria == {"CrossEntropyLoss", "BCEWithLogitsLoss"}

\* merging_strategy.merging_strategy: None (no pooling) or the name of a reduction.
Strategies == {None, [type |-> "str", value |-> "last"]}

\* The EchoStateNetwork, as __init__ leaves it.  keyed is callable(slf.layer.embedding): the
\* batches are mappings (HuggingFace) rather than records (TorchText).  A
\* closed-form readout is built without criterion and optimizer, any other with.
Configs ==
    { [learning_algo |-> a, criterion |-> c, merging_strategy |-> m,
       bidirectional |-> b, keyed |-> k] :
         a \in Algos, c \in Criteria \cup {"None"}, m \in Strategies,
         b \in BOOLEAN, k \in BOOLEAN }

ValidConfigs ==
    { c \in Configs : (c.learning_algo \in ClosedFormAlgos) <=> (c.criterion = "None") }

\* ------------------------------------------------------------- batches
Classes == 0 .. (NumClasses - 1)

LengthVectors == UNION { [1 .. n -> 1 .. MaxLen] : n \in 1 .. MaxSeqs }

LabelVectors(n) == [1 .. n -> Classes]

\* Widths of a state row and of a row of additional features.
ReservoirDim == 1
FtsDim == 2

\* The numbers that stand for the encoder's states and the extra features:
\* FwdVal(id, i, p, f) is feature f of the forward state of token p of
\* sentence i of the batch whose text is id, RevVal the same for the state
\* the reverse pass computes at that token; Pad fills the padded time steps.
FwdVal(id, i, p, f) == 1000 * id + 100 * i + 10 * p + f
RevVal(id, i, p, f) == 10000 + FwdVal(id, i, p, f)
FtsVal(id, i, f) == 20000 + 1000 * id + 100 * i + f
Pad == [f \in 1 .. ReservoirDim |-> 0]

FtsOf(id, n) == [i \in 1 .. n |-> [f \in 1 .. FtsDim |-> FtsVal(id, i, f)]]

\* The id-th batch of a dataloader: the text stands for the token matrix (it
\* fixes the true lengths l); the labels y and the additional features are
\* there or not.
Batch(id, l, y, has_labels, has_fts) ==
    [text |-> [id |-> id, lengths |-> l],
     labels |-> IF has_labels THEN Some(y) ELSE None,
     additional_fts |-> IF has_fts THEN Some(FtsOf(id, Len(l))) ELSE None]

\* ------------------------------------------------------------- collaborators
\* slf.layer.forward(batch_text) -> (states, lengths): one state row per time
\* step, padded to the longest sentence of the batch.
layer_forward(text) ==
    LET l == text.lengths
        T == Max({ l[i] : i \in 1 .. Len(l) })
    IN  [states |->
            [i \in 1 .. Len(l) |->
                [t \in 1 .. T |->
                    IF t <= l[i]
                    THEN [f \in 1 .. ReservoirDim |-> FwdVal(text.id, i, t, f)]
                    ELSE Pad]],
         lengths |-> l]

\* slf.layer.reverse_forward(batch_text): the sentences are read backwards, so
\* the row at time step t of sentence i is the state at token l[i] + 1 - t.
layer_reverse_forward(text) ==
    LET l == text.lengths
        T == Max({ l[i] : i \in 1 .. Len(l) })
    IN  [states |->
            [i \in 1 .. Len(l) |->
                [t \in 1 .. T |->
                    IF t <= l[i]
                    THEN [f \in 1 .. ReservoirDim |-> RevVal(text.id, i, l[i] + 1 - t, f)]
                    ELSE Pad]],
         lengths |-> l]

\* slf.merging_strategy(states, lengths, texts, additional_fts=None).  With no
\* strategy it is the identity on the token rows: the first lengths[i] rows of
\* every sentence, sentence after sentence.  With a strategy it yields one row
\* per sentence, followed by the sentence's additional features if there are any.
MergingStrategy(strategy, states, lengths, texts, additional_fts) ==
    IF strategy = None
    THEN Cat([i \in 1 .. Len(lengths) |-> SubSeq(states[i], 1, lengths[i])])
    ELSE [i \in 1 .. Len(lengths) |->
            states[i][lengths[i]] \o
            (IF additional_fts = None THEN <<>> ELSE additional_fts.data[i])]

\* mat.duplicate_labels(labels, lengths): labels[i] repeated lengths[i] times.
duplicate_labels(labels, lengths) ==
    Cat([i \in 1 .. Len(lengths) |-> [k \in 1 .. lengths[i] |-> labels[i]]])

\* torch.nn.functional.one_hot(labels): max(labels) + 1 columns.
one_hot(labels) ==
    LET C == Max({ labels[k] : k \in 1 .. Len(labels) }) + 1
    IN  [k \in 1 .. Len(labels) |-> [c \in 1 .. C |-> IF labels[k] = c - 1 THEN 1 ELSE 0]]

\* ------------------------------------------------------------- tensors
\* torch.flip(x, [0]): the rows of x in reverse order.
flip(x) == [t \in 1 .. Len(x) |-> x[Len(x) + 1 - t]]

\* torch.cat([a, b], dim=2) of two 3-D tensors: the rows of b appended to those of a.
cat_dim2(a, b) == [i \in 1 .. Len(a) |-> [t \in 1 .. Len(a[i]) |-> a[i][t] \o b[i][t]]]

\* torch.cat([a, b], dim=1) of two 2-D tensors.
cat_dim1(a, b) == [i \in 1 .. Len(a) |-> a[i] \o b[i]]

\* x[a:b] for 0 <= a, 0 <= b: Python clips a slice to the length of x.
Slice(x, a, b) ==
    LET lo == IF a > Len(x) THEN Len(x) ELSE a
        hi == IF b > Len(x) THEN Len(x) ELSE b
    IN  IF hi <= lo THEN <<>> ELSE [k \in 1 .. (hi - lo) |-> x[lo + k]]

\* ------------------------------------------------------------- _apply_pooling_strategy
\* A flip of the whole row, padding included.
restore_row_with_padding(row, l) == flip(row)

\* restored_states[i, :l] = torch.flip(restored_states[i, :l], [0]), for every
\* sentence i: the first l rows in reverse order, the rows after them as they were.
restore_row(row, l) == flip(SubSeq(row, 1, l)) \o SubSeq(row, l + 1, Len(row))

\* The clone and the loop over the sentences.  restored_states is the clone
\* after the loop, reversed_states the caller's tensor after it.
restore_states(reversed_states, lengths) ==
    [restored_states |->
        [i \in 1 .. Len(lengths) |-> restore_row(reversed_states[i], lengths[i])],
     reversed_states |-> reversed_states]

\* A call of slf.merging_strategy, as the pooler makes it: the arguments it
\* passes (an omitted additional_fts is the default, None) and what it returns.
ms_call(slf, states, lengths, texts, additional_fts) ==
    [states |-> states, lengths |-> lengths, texts |-> texts,
     additional_fts |-> additional_fts,
     returns |-> MergingStrategy(slf.merging_strategy, states, lengths, texts,
                                 additional_fts)]

\* bidirectional, no strategy: the reversed states are put back in forward
\* order, the two tensors concatenated along the features, then merged.
pool_bidirectional_none(slf, states, lengths, texts, reversed_states, additional_fts) ==
    LET r == restore_states(reversed_states.data, lengths)
        concatenated_states == cat_dim2(states, r.restored_states)
        call == ms_call(slf, concatenated_states, lengths, texts, None)
    IN  [final_states |-> call.returns,
         ms_calls |-> << call >>,
         concatenated_states |-> Some(concatenated_states),
         restored_states |-> Some(r.restored_states),
         reversed_states |-> Some(r.reversed_states)]

\* Both directions merged with the additional features.
pool_bidirectional_merged_fts_twice(slf, states, lengths, texts, reversed_states, additional_fts) ==
    LET normal == ms_call(slf, states, lengths, texts, additional_fts)
        reversed == ms_call(slf, reversed_states.data, lengths, texts, additional_fts)
    IN  [final_states |-> cat_dim1(normal.returns, reversed.returns),
         ms_calls |-> << normal, reversed >>,
         concatenated_states |-> None,
         restored_states |-> None,
         reversed_states |-> reversed_states]

\* bidirectional, with a strategy: each direction is merged, then the two
\* merged tensors are concatenated along the features.
pool_bidirectional_merged(slf, states, lengths, texts, reversed_states, additional_fts) ==
    LET normal == ms_call(slf, states, lengths, texts, additional_fts)
        reversed == ms_call(slf, reversed_states.data, lengths, texts, None)
    IN  [final_states |-> cat_dim1(normal.returns, reversed.returns),
         ms_calls |-> << normal, reversed >>,
         concatenated_states |-> None,
         restored_states |-> None,
         reversed_states |-> reversed_states]

pool_unidirectional(slf, states, lengths, texts, reversed_states, additional_fts) ==
    LET call == ms_call(slf, states, lengths, texts, additional_fts)
    IN  [final_states |-> call.returns,
         ms_calls |-> << call >>,
         concatenated_states |-> None,
         restored_states |-> None,
         reversed_states |-> reversed_states]

\* _apply_pooling_strategy(states, lengths, texts, reversed_states, additional_fts):
\* final_states is what it returns; the other fields record the calls it made
\* and the tensors it built on the way.
apply_pooling_strategy(slf, states, lengths, texts, reversed_states, additional_fts) ==
    IF slf.bidirectional
    THEN IF slf.merging_strategy = None
         THEN pool_bidirectional_none(slf, states, lengths, texts,
                                      reversed_states, additional_fts)
         ELSE pool_bidirectional_merged(slf, states, lengths, texts,
                                        reversed_states, additional_fts)
    ELSE pool_unidirectional(slf, states, lengths, texts,
                             reversed_states, additional_fts)

\* ------------------------------------------------------------- _compute_predictions
\* A readout's raw outputs: dim = 2, one row of NumClasses scores per input
\* row, or dim = 1, one class per input row.
\* The offsets of the last row of every sentence: [sum(tmp[:i]) - 1 ...].
offsets_of_last_rows(lengths) ==
    << 0 >> \o [i \in 1 .. Len(lengths) |-> Sum(SubSeq(lengths, 1, i)) - 1]

\* tmp = [0] + [sum(tmp[:i]) for i in range(1, len(tmp) + 1)]: the offsets 0,
\* lengths[0], lengths[0] + lengths[1], ...; offsets(lengths)[k + 1] is tmp[k].
offsets(lengths) ==
    << 0 >> \o [i \in 1 .. Len(lengths) |-> Sum(SubSeq(lengths, 1, i))]

\* torch.mean(x, dim=0) of a 2-D tensor: per column, the sum of the entries
\* over the number of rows, kept as the fraction num / den.
mean_dim0(x) ==
    [c \in 1 .. NumClasses |->
        [num |-> Sum([k \in 1 .. Len(x) |-> x[k][c]]), den |-> Len(x)]]

\* a < b for two fractions with denominators >= 0.
Less(a, b) == a.num * b.den < b.num * a.den

RECURSIVE argmax_scan(_, _, _)
\* torch.argmax over one row: a scan that keeps the first maximal entry.
argmax_scan(row, best, c) ==
    IF c > Len(row) THEN best
    ELSE argmax_scan(row, IF Less(row[best], row[c]) THEN c ELSE best, c + 1)

\* The 0-based index torch.argmax returns for a row of fractions.
argmax(row) == argmax_scan(row, 1, 2) - 1

\* An integer score as a fraction.
frac(v) == [num |-> v, den |-> 1]

\* merging strategy None: the rows of every sentence are averaged, then arg-max.
predictions_unmerged(raw_outputs, lengths) ==
    LET tmp == offsets(lengths)
    IN  IF raw_outputs.dim # 2
        THEN [error |-> "IndexError"]
        ELSE [error |-> "",
              predictions |->
                [i \in 1 .. (Len(tmp) - 1) |->
                    argmax(mean_dim0(Slice(raw_outputs.data, tmp[i], tmp[i + 1])))]]

\* merging strategy not None: arg-max of every row, or the classes as they are.
predictions_merged(raw_outputs, lengths) ==
    [error |-> "",
     predictions |->
        IF raw_outputs.dim # 1
        THEN [i \in 1 .. Len(raw_outputs.data) |->
                argmax([c \in 1 .. NumClasses |-> frac(raw_outputs.data[i][c])])]
        ELSE raw_outputs.data]

\* _compute_predictions(states, lengths), given raw_outputs = slf.learning_algo(states).
compute_predictions(slf, raw_outputs, lengths) ==
    IF slf.merging_strategy = None
    THEN predictions_unmerged(raw_outputs, lengths)
    ELSE predictions_merged(raw_outputs, lengths)

\* ------------------------------------------------------------- state
VARIABLES
    self,           \* the EchoStateNetwork: its readout, criterion, strategy, flags
    pc,             \* "idle", "_fit_direct", "_fit_GD", "predict", "returned", "raised"
    op,             \* the public method that was called: "", "fit" or "predict"
    args,           \* _fit_GD: its arguments epochs and iter_steps
    epoch,          \* _fit_GD: passes over the dataloader completed
    i_batch,        \* batches taken from the dataloader in the current pass
    n_drawn,        \* batches taken from the dataloader since the call
    cur,            \* what the last loop iteration computed for its batch
    states_l,       \* _fit_direct
    labels_l,       \* _fit_direct
    fit_calls,      \* the calls of self.learning_algo.fit made so far
    loss_l,         \* _fit_GD
    n_iter,         \* _fit_GD
    opt_steps,      \* the calls of self.optimizer.step made so far
    seen,           \* predict: the batches taken so far and their predictions
    predictions_l,  \* predict
    correct,        \* predict
    total,          \* predict
    testing_mode,   \* predict
    result,         \* what the call returned
    error,          \* the exception the call raised
    pool_in,        \* a direct call of _apply_pooling_strategy: its arguments
    pool_out,       \* and what it returned
    pred_in,        \* a direct call of _compute_predictions: its arguments
    pred_out        \* and what it returned

vars ==
    << self, pc, op, args, epoch, i_batch, n_drawn, cur, states_l, labels_l,
       fit_calls, loss_l, n_iter, opt_steps, seen, predictions_l, correct, total,
       testing_mode, result, error, pool_in, pool_out, pred_in, pred_out >>

run_vars ==
    << pc, op, args, epoch, i_batch, n_drawn, cur, states_l, labels_l,
       fit_calls, loss_l, n_iter, opt_steps, seen, predictions_l, correct, total,
       testing_mode, result, error >>

fn_vars == << pool_in, pool_out, pred_in, pred_out >>

NoCall ==
    /\ pc = "idle" /\ op = "" /\ args = None
    /\ epoch = 0 /\ i_batch = 0 /\ n_drawn = 0 /\ cur = None
    /\ states_l = <<>> /\ labels_l = <<>> /\ fit_calls = <<>>
    /\ loss_l = <<>> /\ n_iter = 0 /\ opt_steps = 0
    /\ seen = <<>> /\ predictions_l = <<>> /\ correct = 0 /\ total = 0
    /\ testing_mode = FALSE
    /\ result = None /\ error = ""

NoFnCall == pool_in = None /\ pool_out = None /\ pred_in = None /\ pred_out = None

Init == self \in ValidConfigs /\ NoCall /\ NoFnCall

\* ------------------------------------------------------------- the loop body
\* The head of the three loops: the text, the labels and the additional
\* features of a batch.  A mapping without "labels" raises KeyError, a record
\* without label AttributeError; in the TorchText branch additional_fts is
\* never assigned.
batch_fields(slf, batch) ==
    IF slf.keyed
    THEN IF batch.labels = None
         THEN [error |-> "KeyError"]
         ELSE [error |-> "", batch_text |-> batch.text, batch_label |-> batch.labels.data,
               additional_fts |-> batch.additional_fts]
    ELSE IF batch.labels = None
         THEN [error |-> "AttributeError"]
         ELSE [error |-> "", batch_text |-> batch.text, batch_label |-> batch.labels.data,
               additional_fts |-> Unbound]

\* The encoder passes and the call of _apply_pooling_strategy; reading
\* additional_fts for the call raises UnboundLocalError if it was never assigned.
encode_and_pool(slf, fields) ==
    LET fwd == layer_forward(fields.batch_text)
        reversed_states ==
            IF slf.bidirectional
            THEN Some(layer_reverse_forward(fields.batch_text).states)
            ELSE None
    IN  IF fields.additional_fts = Unbound
        THEN [error |-> "UnboundLocalError", lengths |-> fwd.lengths]
        ELSE [error |-> "", lengths |-> fwd.lengths,
              additional_fts |-> fields.additional_fts,
              final_states |->
                apply_pooling_strategy(slf, fwd.states, fwd.lengths, fields.batch_text,
                                       reversed_states, fields.additional_fts).final_states]

\* Labels that are never duplicated.
training_labels_as_given(slf, batch_label, lengths) == batch_label

\* The labels of a training batch: duplicated per token if there is no strategy.
training_labels(slf, batch_label, lengths) ==
    IF slf.merging_strategy = None THEN duplicate_labels(batch_label, lengths)
    ELSE batch_label

\* One iteration of the loop of _fit_direct or of _fit_GD, up to final_states.
training_batch(slf, batch) ==
    LET fields == batch_fields(slf, batch)
    IN  IF fields.error # "" THEN [error |-> fields.error, batch |-> batch]
        ELSE LET pooled == encode_and_pool(slf, fields)
             IN  IF pooled.error # "" THEN [error |-> pooled.error, batch |-> batch]
                 ELSE [error |-> "", batch |-> batch, lengths |-> pooled.lengths,
                       additional_fts |-> pooled.additional_fts,
                       labels |-> training_labels(slf, fields.batch_label, pooled.lengths),
                       final_states |-> pooled.final_states]

\* ------------------------------------------------------------- fit
\* A dispatcher that names the iterative readout and defaults to the closed form.
fit_route_default_direct(learning_algo) ==
    IF learning_algo = "LogisticRegression" THEN "_fit_GD" ELSE "_fit_direct"

\* The isinstance chain of fit: the method the call is routed to.
fit_route(learning_algo) ==
    IF \/ learning_algo = "RidgeRegression"
       \/ learning_algo = "RidgeRegression_skl"
       \/ learning_algo = "LogisticRegression_skl"
       \/ learning_algo = "LinearSVC"
    THEN "_fit_direct"
    ELSE "_fit_GD"

\* fit(train_dataloader, epochs, iter_steps): _fit_direct is called with the
\* dataloader alone, _fit_GD with the dataloader, epochs and iter_steps.
fit(epochs, iter_steps) ==
    /\ pc = "idle"
    /\ op' = "fit"
    /\ pc' = fit_route(self.learning_algo)
    /\ args' = IF pc' = "_fit_GD" THEN [epochs |-> epochs, iter_steps |-> iter_steps]
               ELSE None
    /\ UNCHANGED << self, epoch, i_batch, n_drawn, cur, states_l, labels_l, fit_calls,
                    loss_l, n_iter, opt_steps, seen, predictions_l, correct, total,
                    testing_mode, result, error >>
    /\ UNCHANGED fn_vars

\* ------------------------------------------------------------- _fit_direct
\* One iteration of the loop over the batches: the dataloader yields batch.
fit_direct_batch(batch) ==
    /\ pc = "_fit_direct"
    /\ i_batch < MaxBatches
    /\ \E r \in { training_batch(self, batch) } :
           /\ cur' = r
           /\ IF r.error # ""
              THEN /\ pc' = "raised" /\ error' = r.error
                   /\ UNCHANGED << states_l, labels_l >>
              ELSE /\ states_l' = Append(states_l, r.final_states)
                   /\ labels_l' = Append(labels_l, r.labels)
                   /\ UNCHANGED << pc, error >>
    /\ i_batch' = i_batch + 1
    /\ n_drawn' = n_drawn + 1
    /\ UNCHANGED << self, op, args, epoch, fit_calls, loss_l, n_iter, opt_steps, seen,
                    predictions_l, correct, total, testing_mode, result >>
    /\ UNCHANGED fn_vars

\* A fit on the states and labels of the last batch alone.
design_of_last_batch(sl, ll) ==
    [all_states |-> sl[Len(sl)], all_labels |-> ll[Len(ll)]]

\* all_states, all_labels = torch.cat(states_l, dim=0), torch.cat(labels_l, dim=0)
design(sl, ll) == [all_states |-> Cat(sl), all_labels |-> Cat(ll)]

\* The dataloader is exhausted: the two torch.cat (of an empty list,
\* RuntimeError), the call of self.learning_algo.fit, return None.
fit_direct_end ==
    /\ pc = "_fit_direct"
    /\ IF states_l = <<>>
       THEN /\ pc' = "raised" /\ error' = "RuntimeError"
            /\ UNCHANGED << fit_calls, result >>
       ELSE /\ fit_calls' = Append(fit_calls, design(states_l, labels_l))
            /\ pc' = "returned"
            /\ result' = [type |-> "return", value |-> None]
            /\ UNCHANGED error
    /\ UNCHANGED << self, op, args, epoch, i_batch, n_drawn, cur, states_l, labels_l,
                    loss_l, n_iter, opt_steps, seen, predictions_l, correct, total,
                    testing_mode >>
    /\ UNCHANGED fn_vars

\* ------------------------------------------------------------- _fit_GD
\* The labels the criterion is given: one-hot for the two criteria that need it.
criterion_labels(slf, labels) ==
    IF slf.criterion = "MultiLabelSoftMarginLoss" \/ slf.criterion = "BCEWithLogitsLoss"
    THEN one_hot(labels)
    ELSE labels

\* What an iteration of _fit_GD computed: r, and the labels given to the criterion.
with_loss_labels(r, ll) ==
    [error |-> r.error, batch |-> r.batch, lengths |-> r.lengths,
     additional_fts |-> r.additional_fts, labels |-> r.labels,
     final_states |-> r.final_states, loss_labels |-> ll]

\* The test made on the counter as it was before n_iter += 1.
record_loss_before_increment(l, n, iter_steps, loss) ==
    IF (n - 1) % iter_steps = 0 THEN Append(l, loss) ELSE l

\* if n_iter % iter_steps == 0: loss_l.append(loss.item())
record_loss(l, n, iter_steps, loss) ==
    IF n % iter_steps = 0 THEN Append(l, loss) ELSE l

\* One iteration of the inner loop: the batch is encoded and pooled, the
\* readout and the criterion are called, the optimizer steps, n_iter counts
\* it.  The loss of the iteration stands for itself: [iteration |-> n].
fit_GD_batch(batch) ==
    /\ pc = "_fit_GD"
    /\ epoch < args.epochs
    /\ i_batch < MaxBatches
    /\ \E r \in { training_batch(self, batch) } :
           IF r.error # ""
           THEN /\ cur' = r
                /\ pc' = "raised" /\ error' = r.error
                /\ UNCHANGED << loss_l, n_iter, opt_steps >>
           ELSE /\ cur' = with_loss_labels(r, criterion_labels(self, r.labels))
                /\ opt_steps' = opt_steps + 1
                /\ n_iter' = n_iter + 1
                /\ loss_l' = record_loss(loss_l, n_iter + 1, args.iter_steps,
                                         [iteration |-> n_iter + 1])
                /\ UNCHANGED << pc, error >>
    /\ i_batch' = i_batch + 1
    /\ n_drawn' = n_drawn + 1
    /\ UNCHANGED << self, op, args, epoch, states_l, labels_l, fit_calls, seen,
                    predictions_l, correct, total, testing_mode, result >>
    /\ UNCHANGED fn_vars

\* The dataloader is exhausted: the inner loop ends, the next epoch begins.
fit_GD_epoch_end ==
    /\ pc = "_fit_GD"
    /\ epoch < args.epochs
    /\ epoch' = epoch + 1
    /\ i_batch' = 0
    /\ UNCHANGED << self, pc, op, args, n_drawn, cur, states_l, labels_l, fit_calls,
                    loss_l, n_iter, opt_steps, seen, predictions_l, correct, total,
                    testing_mode, result, error >>
    /\ UNCHANGED fn_vars

\* range(int(epochs)) is exhausted: return loss_l.
fit_GD_end ==
    /\ pc = "_fit_GD"
    /\ epoch >= args.epochs
    /\ pc' = "returned"
    /\ result' = [type |-> "return", value |-> [type |-> "list", data |-> loss_l]]
    /\ UNCHANGED << self, op, args, epoch, i_batch, n_drawn, cur, states_l, labels_l,
                    fit_calls, loss_l, n_iter, opt_steps, seen, predictions_l, correct,
                    total, testing_mode, error >>
    /\ UNCHANGED fn_vars

\* ------------------------------------------------------------- predict
\* predict(dataloader)
predict ==
    /\ pc = "idle"
    /\ op' = "predict"
    /\ pc' = "predict"
    /\ UNCHANGED << self, args, epoch, i_batch, n_drawn, cur, states_l, labels_l, fit_calls,
                    loss_l, n_iter, opt_steps, seen, predictions_l, correct, total,
                    testing_mode, result, error >>
    /\ UNCHANGED fn_vars

\* What self.learning_algo returns for n input rows: a row of scores per input
\* row (the class row_class[k] scores MaxScore, the others 0) or the class per
\* input row.
readout_outputs(row_class, dim) ==
    IF dim = 2
    THEN [dim |-> 2,
          data |-> [k \in 1 .. Len(row_class) |->
                      [c \in 1 .. NumClasses |->
                          IF c - 1 = row_class[k] THEN MaxScore ELSE 0]]]
    ELSE [dim |-> 1, data |-> row_class]

\* (predictions == labels).sum()
count_equal(predictions, labels) ==
    Cardinality({ k \in 1 .. Len(labels) : predictions[k] = labels[k] })

\* One iteration of the loop of predict, from the batch to its predictions; the
\* readout answers row_class for the rows of final_states, in the form dim.
predict_batch_result(slf, batch, row_class, dim) ==
    LET fields == batch_fields(slf, batch)
    IN  IF fields.error # "" THEN [error |-> fields.error, batch |-> batch]
        ELSE LET pooled == encode_and_pool(slf, fields)
             IN  IF pooled.error # "" THEN [error |-> pooled.error, batch |-> batch]
                 ELSE LET p == compute_predictions(slf,
                                    readout_outputs(row_class, dim),
                                    pooled.lengths)
                      IN  IF p.error # "" THEN [error |-> p.error, batch |-> batch]
                          ELSE [error |-> "", batch |-> batch, lengths |-> pooled.lengths,
                                additional_fts |-> pooled.additional_fts,
                                batch_label |-> fields.batch_label,
                                final_states |-> pooled.final_states,
                                predictions |-> p.predictions]

\* What seen keeps of an iteration: the batch and the predictions made for it.
seen_entry(r) ==
    [batch |-> r.batch,
     predictions |-> IF r.error = "" THEN Some(r.predictions) ELSE None]

\* One iteration of the loop of predict.  The loop head has raised if the
\* batch has no labels, so the try block finds them: total, correct and
\* testing_mode are updated.
predict_batch(batch, row_class, dim) ==
    /\ pc = "predict"
    /\ i_batch < MaxBatches
    /\ \E r \in { predict_batch_result(self, batch, row_class, dim) } :
           /\ cur' = r
           /\ seen' = Append(seen, seen_entry(r))
           /\ IF r.error # ""
              THEN /\ pc' = "raised" /\ error' = r.error
                   /\ UNCHANGED << predictions_l, total, correct, testing_mode >>
              ELSE /\ predictions_l' = Append(predictions_l, r.predictions)
                   /\ total' = total + Len(r.batch_label)
                   /\ correct' = correct + count_equal(r.predictions, r.batch_label)
                   /\ testing_mode' = TRUE
                   /\ UNCHANGED << pc, error >>
    /\ i_batch' = i_batch + 1
    /\ n_drawn' = n_drawn + 1
    /\ UNCHANGED << self, op, args, epoch, states_l, labels_l, fit_calls, loss_l,
                    n_iter, opt_steps, result >>
    /\ UNCHANGED fn_vars

\* The dataloader is exhausted: the accuracy (None if no batch had labels), the
\* torch.cat of the predictions (of an empty list, RuntimeError), the return.
predict_end ==
    /\ pc = "predict"
    /\ IF testing_mode /\ total = 0
       THEN /\ pc' = "raised" /\ error' = "ZeroDivisionError"
            /\ UNCHANGED result
       ELSE IF predictions_l = <<>>
       THEN /\ pc' = "raised" /\ error' = "RuntimeError"
            /\ UNCHANGED result
       ELSE /\ pc' = "returned"
            /\ result' = [type |-> "return",
                          predictions_l |-> Cat(predictions_l),
                          accuracy |-> IF testing_mode
                                       THEN [num |-> 100 * correct, den |-> total]
                                       ELSE None]
            /\ UNCHANGED error
    /\ UNCHANGED << self, op, args, epoch, i_batch, n_drawn, cur, states_l, labels_l,
                    fit_calls, loss_l, n_iter, opt_steps, seen, predictions_l, correct,
                    total, testing_mode >>
    /\ UNCHANGED fn_vars

\* ------------------------------------------------------------- specifications
\* The labels a batch of Len(l) sentences can carry.
LabelChoices(l, has_labels) ==
    IF has_labels THEN LabelVectors(Len(l)) ELSE { [i \in 1 .. Len(l) |-> 0] }

\* The number of rows of final_states for a batch of lengths l.
Rows(slf, l) == IF slf.merging_strategy = None THEN Sum(l) ELSE Len(l)

\* Training: a call of fit and its run.
Next ==
    \/ \E e \in 0 .. MaxEpochs, s \in 1 .. MaxIterSteps : fit(e, s)
    \/ \E l \in LengthVectors, hl \in BOOLEAN, hf \in BOOLEAN :
          \E y \in LabelChoices(l, hl) :
              fit_direct_batch(Batch(i_batch + 1, l, y, hl, hf))
    \/ fit_direct_end
    \/ \E l \in LengthVectors, hl \in BOOLEAN, hf \in BOOLEAN :
          \E y \in LabelChoices(l, hl) :
              fit_GD_batch(Batch(i_batch + 1, l, y, hl, hf))
    \/ fit_GD_epoch_end
    \/ fit_GD_end

Spec == Init /\ [][Next]_vars

\* Evaluation: a call of predict and its run.  predict reads neither the class
\* of the readout nor the criterion, so one readout stands for all.
InitPredict ==
    /\ self \in { c \in ValidConfigs : c.learning_algo = "RidgeRegression" }
    /\ NoCall /\ NoFnCall

NextPredict ==
    \/ predict
    \/ \E l \in LengthVectors, hl \in BOOLEAN, hf \in BOOLEAN :
          \E y \in LabelChoices(l, hl), d \in 1 .. 2 :
              \E rc \in [1 .. Rows(self, l) -> Classes] :
                  predict_batch(Batch(i_batch + 1, l, y, hl, hf), rc, d)
    \/ predict_end

SpecPredict == InitPredict /\ [][NextPredict]_vars

\* ------------------------------------------------------------- direct calls
\* A forward and a reversed StateTensor for a batch of lengths l padded to T
\* time steps; every row, padding included, has contents of its own.
forward_tensor(id, l, T) ==
    [i \in 1 .. Len(l) |->
        [t \in 1 .. T |-> [f \in 1 .. ReservoirDim |-> FwdVal(id, i, t, f)]]]

reversed_tensor(id, l, T) ==
    [i \in 1 .. Len(l) |->
        [t \in 1 .. T |-> [f \in 1 .. ReservoirDim |-> RevVal(id, i, t, f)]]]

\* The arguments of a call of _apply_pooling_strategy.
PoolArgs(slf, id, l, T, has_fts) ==
    [states |-> forward_tensor(id, l, T),
     lengths |-> l,
     texts |-> [id |-> id, lengths |-> l],
     reversed_states |-> IF slf.bidirectional THEN Some(reversed_tensor(id, l, T))
                         ELSE None,
     additional_fts |-> IF has_fts THEN Some(FtsOf(id, Len(l))) ELSE None]

\* The flags a direct call reads are the strategy and bidirectional.
FnConfigs == { c \in ValidConfigs : c.learning_algo = "RidgeRegression" /\ c.keyed }

InitPool ==
    /\ self \in FnConfigs
    /\ NoCall
    /\ \E id \in 1 .. MaxBatches, l \in LengthVectors, has_fts \in BOOLEAN :
          \E T \in Max({ l[i] : i \in 1 .. Len(l) }) .. MaxLen :
              pool_in = PoolArgs(self, id, l, T, has_fts)
    /\ pool_out = None /\ pred_in = None /\ pred_out = None

\* The call: pool_out is what it returns and did on the way, and the caller's
\* reversed_states are what the call left of them.
call_apply_pooling_strategy ==
    /\ pool_in # None /\ pool_out = None
    /\ \E r \in { apply_pooling_strategy(self, pool_in.states, pool_in.lengths,
                                         pool_in.texts, pool_in.reversed_states,
                                         pool_in.additional_fts) } :
          /\ pool_out' = r
          /\ pool_in' = [pool_in EXCEPT !.reversed_states = r.reversed_states]
    /\ UNCHANGED << self, pred_in, pred_out >>
    /\ UNCHANGED run_vars

NextPool == call_apply_pooling_strategy

SpecPool == InitPool /\ [][NextPool]_vars

\* The raw outputs a readout can return for n input rows.
Scores == 0 .. MaxScore

RawOutputs(n, dim) ==
    IF dim = 2
    THEN { [dim |-> 2, data |-> d] : d \in [1 .. n -> [1 .. NumClasses -> Scores]] }
    ELSE { [dim |-> 1, data |-> d] : d \in [1 .. n -> Classes] }

InitPredictions ==
    /\ self \in FnConfigs
    /\ NoCall
    /\ \E l \in LengthVectors, dim \in 1 .. 2 :
          \E raw \in RawOutputs(Rows(self, l), dim) :
              pred_in = [raw_outputs |-> raw, lengths |-> l]
    /\ pred_out = None /\ pool_in = None /\ pool_out = None

call_compute_predictions ==
    /\ pred_in # None /\ pred_out = None
    /\ pred_out' = compute_predictions(self, pred_in.raw_outputs, pred_in.lengths)
    /\ UNCHANGED << self, pred_in, pool_in, pool_out >>
    /\ UNCHANGED run_vars

NextPredictions == call_compute_predictions

SpecPredictions == InitPredictions /\ [][NextPredictions]_vars

\* ------------------------------------------------------------- claims
\* offset(l, i): the number of token rows before those of sentence i.
offset(l, i) == Sum(SubSeq(l, 1, i - 1))

\* C1 (as stated): fit with a readout that is neither one of the closed-form
\* classes nor a known iterative one fails with UnsupportedAlgorithm before any
\* batch is taken, and enters neither _fit_direct nor _fit_GD.
C1_FailsUnsupportedAlgorithm ==
    (op = "fit" /\ self.learning_algo \in OtherAlgos)
        => (pc = "raised" /\ error = "UnsupportedAlgorithm" /\ n_drawn = 0)

\* C1 (amended): fit with such a readout is routed to _fit_GD with epochs and
\* iter_steps, as for an iterative readout: it never enters _fit_direct, never
\* calls the readout's fit, raises no UnsupportedAlgorithm, and what it returns
\* is the list of losses.
C1_UnrecognizedRunsGD ==
    (op = "fit" /\ self.learning_algo \in OtherAlgos)
        => /\ pc \in {"_fit_GD", "returned", "raised"}
           /\ args # None
           /\ states_l = <<>> /\ labels_l = <<>> /\ fit_calls = <<>>
           /\ error # "UnsupportedAlgorithm"
           /\ n_iter = opt_steps
           /\ pc = "returned" => result.value = [type |-> "list", data |-> loss_l]

C1_Witness ==
    /\ op = "fit" /\ self.learning_algo \in OtherAlgos
    /\ pc = "returned" /\ n_iter = 2 /\ opt_steps = 2

\* C2 (as stated): for both batch shapes, a training batch that has labels
\* and no additional features is processed without error, and the pooling step
\* is reached with the additional features absent.
C2_MissingFeaturesAbsent ==
    (cur # None /\ cur.batch.labels # None /\ cur.batch.additional_fts = None)
        => (cur.error = "" /\ cur.additional_fts = None)

\* C3 (as stated): in predict, a batch without labels raises no error and its
\* predictions are kept; total and correct are summed over exactly the batches
\* with labels; the accuracy returned is 100 * correct / total.
C3_UnlabelledBatchAbsorbed ==
    op = "predict"
        => /\ \A k \in 1 .. Len(seen) :
                seen[k].batch.labels = None => seen[k].predictions # None
           /\ total = Sum([k \in 1 .. Len(seen) |->
                            IF seen[k].batch.labels = None \/ seen[k].predictions = None
                            THEN 0 ELSE Len(seen[k].batch.labels.data)])
           /\ correct = Sum([k \in 1 .. Len(seen) |->
                            IF seen[k].batch.labels = None \/ seen[k].predictions = None
                            THEN 0
                            ELSE count_equal(seen[k].predictions.data,
                                             seen[k].batch.labels.data)])
           /\ (pc = "returned" /\ total > 0)
                 => result.accuracy = [num |-> 100 * correct, den |-> total]

\* C4 (as stated): predict on an evaluation set of at least one batch, none
\* with labels, returns: the accuracy is None, and the predictions are those
\* of the batches, in batch order, one per sentence.
C4_NoLabelsAccuracyNone ==
    ( /\ op = "predict" /\ pc \in {"returned", "raised"}
      /\ seen # <<>>
      /\ \A k \in 1 .. Len(seen) : seen[k].batch.labels = None )
        => /\ pc = "returned"
           /\ result.accuracy = None
           /\ Len(result.predictions_l) =
                 Sum([k \in 1 .. Len(seen) |-> Len(seen[k].batch.text.lengths)])
           /\ result.predictions_l =
                 Cat([k \in 1 .. Len(seen) |-> seen[k].predictions.data])

\* C5: in _fit_GD the counter n_iter counts the batches processed since the
\* call (it is not reset between epochs), and loss_l holds exactly the losses
\* of the iterations iter_steps, 2 * iter_steps, ... up to n_iter, in that
\* order: its length is n_iter \div iter_steps at every point of the run, and
\* it is what the call returns.
C5_LossEveryIterSteps ==
    (op = "fit" /\ args # None)
        => /\ n_iter = opt_steps
           /\ n_iter = IF pc = "raised" THEN n_drawn - 1 ELSE n_drawn
           /\ Len(loss_l) = n_iter \div args.iter_steps
           /\ \A k \in 1 .. Len(loss_l) :
                 loss_l[k] = [iteration |-> k * args.iter_steps]
           /\ pc = "returned" => result.value = [type |-> "list", data |-> loss_l]

C5_Witness ==
    /\ op = "fit" /\ pc = "returned" /\ args # None
    /\ args.iter_steps = 2 /\ args.epochs = 2 /\ epoch = 2
    /\ n_iter = 3
    /\ loss_l = << [iteration |-> 2] >>

\* The rows of the tensors of the list sl before those of its k-th tensor.
rows_before(sl, k) == Sum([m \in 1 .. (k - 1) |-> Len(sl[m])])

\* x holds the rows of the tensors of sl, tensor after tensor.
IsConcatenation(x, sl) ==
    /\ Len(x) = rows_before(sl, Len(sl) + 1)
    /\ \A k \in 1 .. Len(sl) : \A j \in 1 .. Len(sl[k]) :
          x[rows_before(sl, k) + j] = sl[k][j]

\* C6: a fit with a closed-form readout makes one pass over the dataloader
\* whatever epochs is, takes no optimizer step and records no loss; the
\* readout's fit is not called while batches are taken, and at most once; when
\* the call returns, it returns None and fit has been called exactly once, on
\* the merged states and the labels of all the batches, batch after batch.
C6_ClosedFormFitsOnceAtEnd ==
    (op = "fit" /\ self.learning_algo \in ClosedFormAlgos)
        => /\ args = None /\ epoch = 0 /\ n_drawn = i_batch
           /\ loss_l = <<>> /\ n_iter = 0 /\ opt_steps = 0
           /\ Len(fit_calls) <= 1
           /\ pc \in {"_fit_direct", "raised"} => fit_calls = <<>>
           /\ Len(states_l) = Len(labels_l)
           /\ Len(states_l) = IF error = "" \/ cur = None THEN n_drawn
                              ELSE IF cur.error = "" THEN n_drawn ELSE n_drawn - 1
           /\ (cur # None /\ cur.error = "")
                 => /\ states_l[Len(states_l)] = cur.final_states
                    /\ labels_l[Len(labels_l)] = cur.labels
           /\ pc = "returned"
                 => /\ result = [type |-> "return", value |-> None]
                    /\ Len(fit_calls) = 1
                    /\ IsConcatenation(fit_calls[1].all_states, states_l)
                    /\ IsConcatenation(fit_calls[1].all_labels, labels_l)

C6_Witness ==
    /\ op = "fit" /\ self.learning_algo = "LinearSVC" /\ pc = "returned"
    /\ Len(states_l) = 2
    /\ Len(fit_calls) = 1
    /\ fit_calls[1].all_labels = << 0, 1, 1 >>
    /\ Len(fit_calls[1].all_states) = 3

\* C7: in both training loops, for every batch: without a strategy the labels
\* have sum(lengths) rows, as many as final_states, and the lengths[i] rows of
\* sentence i, in the order of the sentences, all carry labels[i]; with a
\* strategy the labels are those of the batch, one per sentence, as many as
\* the rows of final_states.  The labels given to the criterion have that
\* many rows too.
C7_LabelsFollowTokenRows ==
    (op = "fit" /\ cur # None /\ cur.error = "")
        => LET l == cur.lengths
               y == cur.batch.labels.data
           IN  /\ Len(cur.labels) = Len(cur.final_states)
               /\ pc = "_fit_GD" => Len(cur.loss_labels) = Len(cur.final_states)
               /\ IF self.merging_strategy = None
                  THEN /\ Len(cur.labels) = Sum(l)
                       /\ \A i \in 1 .. Len(l) : \A j \in 1 .. l[i] :
                             cur.labels[offset(l, i) + j] = y[i]
                  ELSE /\ Len(cur.labels) = Len(l)
                       /\ cur.labels = y

C7_Witness ==
    /\ op = "fit" /\ pc = "_fit_GD" /\ cur # None /\ cur.error = ""
    /\ self.merging_strategy = None
    /\ cur.lengths = << 2, 1 >>
    /\ cur.batch.labels = Some(<< 0, 1 >>)
    /\ cur.labels = << 0, 0, 1 >>

\* The sum of column c of the rows lo + 1 .. lo + n of x.
ColumnSum(x, c, lo, n) == Sum([k \in 1 .. n |-> x[lo + k][c]])

\* C8: without a strategy, for raw outputs of one row of scores per token,
\* _compute_predictions returns one prediction per sentence: for sentence i,
\* the lowest class whose mean score over the rows offset_i + 1 .. offset_i +
\* lengths[i] is maximal (the rows of a span share the denominator lengths[i],
\* so the means compare as the column sums do); the spans cover all the rows.
C8_MeanArgmaxPerSentence ==
    ( /\ pred_out # None /\ self.merging_strategy = None
      /\ pred_in.raw_outputs.dim = 2 )
        => LET l == pred_in.lengths
               x == pred_in.raw_outputs.data
               p == pred_out.predictions
               s(i, c) == ColumnSum(x, c, offset(l, i), l[i])
           IN  /\ pred_out.error = ""
               /\ Len(p) = Len(l)
               /\ offset(l, Len(l) + 1) = Len(x)
               /\ \A i \in 1 .. Len(l) :
                     /\ p[i] \in Classes
                     /\ \A c \in 1 .. NumClasses : s(i, c) <= s(i, p[i] + 1)
                     /\ \A c \in 1 .. p[i] : s(i, c) < s(i, p[i] + 1)

C8_Witness ==
    /\ pred_out # None /\ self.merging_strategy = None
    /\ pred_in.raw_outputs.dim = 2 /\ pred_out.error = ""
    /\ pred_in.lengths = << 1, 2 >>
    /\ pred_in.raw_outputs = [dim |-> 2, data |-> << << 0, 2 >>, << 2, 0 >>, << 0, 2 >> >>]
    /\ pred_out.predictions = << 1, 0 >>

\* C9: bidirectional without a strategy: for every sentence i the restored
\* row t, t in 1 .. lengths[i], is the reversed row lengths[i] + 1 - t, and
\* every row after lengths[i] is the reversed row at the same place; the
\* caller's reversed states are as they were; the concatenated rows are the
\* forward row followed by the restored row, 2 * ReservoirDim wide.
C9_ReversedStatesRealigned ==
    (pool_out # None /\ self.bidirectional /\ self.merging_strategy = None)
        => LET l == pool_in.lengths
               T == Len(pool_in.states[1])
               given == reversed_tensor(pool_in.texts.id, l, T)
               restored == pool_out.restored_states.data
               joined == pool_out.concatenated_states.data
           IN  /\ pool_in.reversed_states = Some(given)
               /\ pool_out.reversed_states = Some(given)
               /\ \A i \in 1 .. Len(l) :
                     /\ Len(restored[i]) = T
                     /\ \A t \in 1 .. l[i] : restored[i][t] = given[i][l[i] + 1 - t]
                     /\ \A t \in (l[i] + 1) .. T : restored[i][t] = given[i][t]
                     /\ \A t \in 1 .. T :
                           /\ Len(joined[i][t]) = 2 * ReservoirDim
                           /\ SubSeq(joined[i][t], 1, ReservoirDim) = pool_in.states[i][t]
                           /\ SubSeq(joined[i][t], ReservoirDim + 1, 2 * ReservoirDim)
                                 = restored[i][t]
               /\ pool_out.ms_calls[1].states = joined

C9_Witness ==
    /\ pool_out # None /\ self.bidirectional /\ self.merging_strategy = None
    /\ pool_in.lengths = << 2, 1 >>
    /\ pool_out.restored_states.data[1][1] = pool_in.reversed_states.data[1][2]
    /\ pool_out.restored_states.data[2][2] = pool_in.reversed_states.data[2][2]

\* C10 (as stated): bidirectional without a strategy: the one call of the
\* merging strategy, on the concatenated states, is given the additional
\* features that _apply_pooling_strategy was given.
C10_FeaturesReachReduction ==
    (pool_out # None /\ self.bidirectional /\ self.merging_strategy = None)
        => /\ Len(pool_out.ms_calls) = 1
           /\ pool_out.ms_calls[1].additional_fts = pool_in.additional_fts

\* The width of the additional features a call was given: none when omitted.
fts_width(additional_fts) == IF additional_fts = None THEN 0 ELSE FtsDim

\* C11: bidirectional with a strategy: the merging strategy is called exactly
\* twice, first on the forward states with the additional features the pooler
\* was given, then on the reversed states with none, both times with the
\* pooler's lengths and texts; final_states has one row per sentence, each the
\* row the first call returned followed by the row the second call returned,
\* 2 * ReservoirDim wide plus the width of the additional features, once.
C11_TwoReductionsConcatenated ==
    (pool_out # None /\ self.bidirectional /\ self.merging_strategy # None)
        => LET l == pool_in.lengths
               calls == pool_out.ms_calls
               final == pool_out.final_states
               w == fts_width(pool_in.additional_fts)
           IN  /\ Len(calls) = 2
               /\ calls[1].states = pool_in.states
               /\ calls[1].additional_fts = pool_in.additional_fts
               /\ calls[2].states = pool_in.reversed_states.data
               /\ calls[2].additional_fts = None
               /\ \A k \in 1 .. 2 :
                     calls[k].lengths = l /\ calls[k].texts = pool_in.texts
               /\ Len(final) = Len(l)
               /\ \A i \in 1 .. Len(l) :
                     /\ Len(final[i]) = 2 * ReservoirDim + w
                     /\ Len(calls[1].returns[i]) = ReservoirDim + w
                     /\ Len(calls[2].returns[i]) = ReservoirDim
                     /\ SubSeq(final[i], 1, ReservoirDim + w) = calls[1].returns[i]
                     /\ SubSeq(final[i], ReservoirDim + w + 1, 2 * ReservoirDim + w)
                           = calls[2].returns[i]

C11_Witness ==
    /\ pool_out # None /\ self.bidirectional /\ self.merging_strategy # None
    /\ pool_in.additional_fts # None
    /\ pool_in.lengths = << 2, 1 >>
    /\ Len(pool_out.ms_calls) = 2
    /\ Len(pool_out.final_states) = 2
    /\ Len(pool_out.final_states[1]) = 2 * ReservoirDim + FtsDim
    /\ pool_out.final_states[1] # pool_out.ms_calls[1].returns[1]

====
